---- MODULE Spec2Model ----
(***************************************************************************)
(* MacRoman-Encode: the mapping table KNOWN_SEQUENCES and the longest-match *)
(* iterator MacRomanEncoder returned by encode().  Strings are modelled as  *)
(* the sequences of UTF-8 bytes Rust stores them as; every comparison,      *)
(* prefix test and length below is on those bytes, as in the source.        *)
(***************************************************************************)
EXTENDS Integers, Sequences, FiniteSets, TLC

(* ---------------------------------------------------------------------- *)
(* The table KNOWN_SEQUENCES: one <<scalar values, code>> pair per source   *)
(* row, in source order, in three runs of rows.                             *)
(* ---------------------------------------------------------------------- *)

(* Rows whose first scalar value is below U+0080. *)
KnownAscii ==
  <<
    <<<<0>>, 0>>, <<<<1>>, 1>>, <<<<2>>, 2>>, <<<<3>>, 3>>, <<<<4>>, 4>>, <<<<5>>, 5>>,
    <<<<6>>, 6>>, <<<<7>>, 7>>, <<<<8>>, 8>>, <<<<9>>, 9>>, <<<<10>>, 10>>, <<<<11>>, 11>>,
    <<<<12>>, 12>>, <<<<13>>, 13>>, <<<<14>>, 14>>, <<<<15>>, 15>>, <<<<16>>, 16>>,
    <<<<17>>, 17>>, <<<<18>>, 18>>, <<<<19>>, 19>>, <<<<20>>, 20>>, <<<<21>>, 21>>,
    <<<<22>>, 22>>, <<<<23>>, 23>>, <<<<24>>, 24>>, <<<<25>>, 25>>, <<<<26>>, 26>>,
    <<<<27>>, 27>>, <<<<28>>, 28>>, <<<<29>>, 29>>, <<<<30>>, 30>>, <<<<31>>, 31>>,
    <<<<32>>, 32>>, <<<<33>>, 33>>, <<<<34>>, 34>>, <<<<35>>, 35>>, <<<<36>>, 36>>,
    <<<<37>>, 37>>, <<<<38>>, 38>>, <<<<39>>, 39>>, <<<<40>>, 40>>, <<<<41>>, 41>>,
    <<<<42>>, 42>>, <<<<43>>, 43>>, <<<<44>>, 44>>, <<<<45>>, 45>>, <<<<46>>, 46>>,
    <<<<47>>, 47>>, <<<<48>>, 48>>, <<<<49>>, 49>>, <<<<50>>, 50>>, <<<<51>>, 51>>,
    <<<<52>>, 52>>, <<<<53>>, 53>>, <<<<54>>, 54>>, <<<<55>>, 55>>, <<<<56>>, 56>>,
    <<<<57>>, 57>>, <<<<58>>, 58>>, <<<<59>>, 59>>, <<<<60>>, 60>>, <<<<61>>, 61>>,
    <<<<62>>, 62>>, <<<<63>>, 63>>, <<<<64>>, 64>>, <<<<65>>, 65>>, <<<<65, 768>>, 203>>,
    <<<<65, 769>>, 231>>, <<<<65, 770>>, 229>>, <<<<65, 771>>, 204>>, <<<<65, 776>>, 128>>,
    <<<<65, 778>>, 129>>, <<<<66>>, 66>>, <<<<67>>, 67>>, <<<<67, 807>>, 130>>, <<<<68>>, 68>>,
    <<<<69>>, 69>>, <<<<69, 768>>, 233>>, <<<<69, 769>>, 131>>, <<<<69, 770>>, 230>>,
    <<<<69, 776>>, 232>>, <<<<70>>, 70>>, <<<<71>>, 71>>, <<<<72>>, 72>>, <<<<73>>, 73>>,
    <<<<73, 768>>, 237>>, <<<<73, 769>>, 234>>, <<<<73, 770>>, 235>>, <<<<73, 776>>, 236>>,
    <<<<74>>, 74>>, <<<<75>>, 75>>, <<<<76>>, 76>>, <<<<77>>, 77>>, <<<<78>>, 78>>,
    <<<<78, 771>>, 132>>, <<<<79>>, 79>>, <<<<79, 768>>, 241>>, <<<<79, 769>>, 238>>,
    <<<<79, 770>>, 239>>, <<<<79, 771>>, 205>>, <<<<79, 776>>, 133>>, <<<<80>>, 80>>,
    <<<<81>>, 81>>, <<<<82>>, 82>>, <<<<83>>, 83>>, <<<<84>>, 84>>, <<<<85>>, 85>>,
    <<<<85, 768>>, 244>>, <<<<85, 769>>, 242>>, <<<<85, 770>>, 243>>, <<<<85, 776>>, 134>>,
    <<<<86>>, 86>>, <<<<87>>, 87>>, <<<<88>>, 88>>, <<<<89>>, 89>>, <<<<89, 776>>, 217>>,
    <<<<90>>, 90>>, <<<<91>>, 91>>, <<<<92>>, 92>>, <<<<93>>, 93>>, <<<<94>>, 94>>,
    <<<<95>>, 95>>, <<<<96>>, 96>>, <<<<97>>, 97>>, <<<<97, 768>>, 136>>, <<<<97, 769>>, 135>>,
    <<<<97, 770>>, 137>>, <<<<97, 771>>, 139>>, <<<<97, 776>>, 138>>, <<<<97, 778>>, 140>>,
    <<<<98>>, 98>>, <<<<99>>, 99>>, <<<<99, 807>>, 141>>, <<<<100>>, 100>>, <<<<101>>, 101>>,
    <<<<101, 768>>, 143>>, <<<<101, 769>>, 142>>, <<<<101, 770>>, 144>>, <<<<101, 776>>, 145>>,
    <<<<102>>, 102>>, <<<<103>>, 103>>, <<<<104>>, 104>>, <<<<105>>, 105>>,
    <<<<105, 768>>, 147>>, <<<<105, 769>>, 146>>, <<<<105, 770>>, 148>>, <<<<105, 776>>, 149>>,
    <<<<106>>, 106>>, <<<<107>>, 107>>, <<<<108>>, 108>>, <<<<109>>, 109>>, <<<<110>>, 110>>,
    <<<<110, 771>>, 150>>, <<<<111>>, 111>>, <<<<111, 768>>, 152>>, <<<<111, 769>>, 151>>,
    <<<<111, 770>>, 153>>, <<<<111, 771>>, 155>>, <<<<111, 776>>, 154>>, <<<<112>>, 112>>,
    <<<<113>>, 113>>, <<<<114>>, 114>>, <<<<115>>, 115>>, <<<<116>>, 116>>, <<<<117>>, 117>>,
    <<<<117, 768>>, 157>>, <<<<117, 769>>, 156>>, <<<<117, 770>>, 158>>, <<<<117, 776>>, 159>>,
    <<<<118>>, 118>>, <<<<119>>, 119>>, <<<<120>>, 120>>, <<<<121>>, 121>>,
    <<<<121, 776>>, 216>>, <<<<122>>, 122>>, <<<<123>>, 123>>, <<<<124>>, 124>>,
    <<<<125>>, 125>>, <<<<126>>, 126>>, <<<<127>>, 127>>
  >>

(* Rows whose first scalar value is in U+0080..U+00FF. *)
KnownLatin1 ==
  <<
    <<<<160>>, 202>>, <<<<161>>, 193>>, <<<<162>>, 162>>, <<<<163>>, 163>>, <<<<164>>, 219>>,
    <<<<165>>, 180>>, <<<<167>>, 164>>, <<<<168>>, 172>>, <<<<169>>, 169>>, <<<<170>>, 187>>,
    <<<<171>>, 199>>, <<<<172>>, 194>>, <<<<174>>, 168>>, <<<<175>>, 248>>, <<<<176>>, 161>>,
    <<<<177>>, 177>>, <<<<180>>, 171>>, <<<<181>>, 181>>, <<<<182>>, 166>>, <<<<183>>, 225>>,
    <<<<184>>, 252>>, <<<<186>>, 188>>, <<<<187>>, 200>>, <<<<191>>, 192>>, <<<<192>>, 203>>,
    <<<<193>>, 231>>, <<<<194>>, 229>>, <<<<195>>, 204>>, <<<<196>>, 128>>, <<<<197>>, 129>>,
    <<<<198>>, 174>>, <<<<199>>, 130>>, <<<<200>>, 233>>, <<<<201>>, 131>>, <<<<202>>, 230>>,
    <<<<203>>, 232>>, <<<<204>>, 237>>, <<<<205>>, 234>>, <<<<206>>, 235>>, <<<<207>>, 236>>,
    <<<<209>>, 132>>, <<<<210>>, 241>>, <<<<211>>, 238>>, <<<<212>>, 239>>, <<<<213>>, 205>>,
    <<<<214>>, 133>>, <<<<216>>, 175>>, <<<<217>>, 244>>, <<<<218>>, 242>>, <<<<219>>, 243>>,
    <<<<220>>, 134>>, <<<<223>>, 167>>, <<<<224>>, 136>>, <<<<225>>, 135>>, <<<<226>>, 137>>,
    <<<<227>>, 139>>, <<<<228>>, 138>>, <<<<229>>, 140>>, <<<<230>>, 190>>, <<<<231>>, 141>>,
    <<<<232>>, 143>>, <<<<233>>, 142>>, <<<<234>>, 144>>, <<<<235>>, 145>>, <<<<236>>, 147>>,
    <<<<237>>, 146>>, <<<<238>>, 148>>, <<<<239>>, 149>>, <<<<241>>, 150>>, <<<<242>>, 152>>,
    <<<<243>>, 151>>, <<<<244>>, 153>>, <<<<245>>, 155>>, <<<<246>>, 154>>, <<<<247>>, 214>>,
    <<<<248>>, 191>>, <<<<249>>, 157>>, <<<<250>>, 156>>, <<<<251>>, 158>>, <<<<252>>, 159>>,
    <<<<255>>, 216>>
  >>

(* Rows whose first scalar value is U+0100 or above. *)
KnownOther ==
  <<
    <<<<305>>, 245>>, <<<<338>>, 206>>, <<<<339>>, 207>>, <<<<376>>, 217>>, <<<<402>>, 196>>,
    <<<<710>>, 246>>, <<<<711>>, 255>>, <<<<728>>, 249>>, <<<<729>>, 250>>, <<<<730>>, 251>>,
    <<<<731>>, 254>>, <<<<732>>, 247>>, <<<<733>>, 253>>, <<<<937>>, 189>>, <<<<960>>, 185>>,
    <<<<8211>>, 208>>, <<<<8212>>, 209>>, <<<<8216>>, 212>>, <<<<8217>>, 213>>,
    <<<<8218>>, 226>>, <<<<8220>>, 210>>, <<<<8221>>, 211>>, <<<<8222>>, 227>>,
    <<<<8224>>, 160>>, <<<<8225>>, 224>>, <<<<8226>>, 165>>, <<<<8230>>, 201>>,
    <<<<8240>>, 228>>, <<<<8249>>, 220>>, <<<<8250>>, 221>>, <<<<8260>>, 218>>,
    <<<<8364>>, 219>>, <<<<8482>>, 170>>, <<<<8486>>, 189>>, <<<<8706>>, 182>>,
    <<<<8710>>, 198>>, <<<<8719>>, 184>>, <<<<8721>>, 183>>, <<<<8730>>, 195>>,
    <<<<8734>>, 176>>, <<<<8747>>, 186>>, <<<<8776>>, 197>>, <<<<8800>>, 173>>,
    <<<<8804>>, 178>>, <<<<8805>>, 179>>, <<<<9674>>, 215>>, <<<<63743>>, 240>>,
    <<<<64257>>, 222>>, <<<<64258>>, 223>>
  >>

(* The table with its runs of rows in another order. *)
KNOWN_SEQUENCES_Reordered == KnownLatin1 \o KnownAscii \o KnownOther

(* The table without the row for U+0059 alone. *)
KNOWN_SEQUENCES_NoBaseY ==
  SelectSeq(KnownAscii \o KnownLatin1 \o KnownOther, LAMBDA e : e[1] # <<89>>)

(* The table without the row for U+0065 U+0301. *)
KNOWN_SEQUENCES_NoEAcute ==
  SelectSeq(KnownAscii \o KnownLatin1 \o KnownOther, LAMBDA e : e[1] # <<101, 769>>)

KNOWN_SEQUENCES == KnownAscii \o KnownLatin1 \o KnownOther

(* ---------------------------------------------------------------------- *)
(* UTF-8, the storage form of &str                                         *)
(* ---------------------------------------------------------------------- *)

(* The bytes of one scalar value. *)
Utf8(c) ==
  IF c < 128 THEN <<c>>
  ELSE IF c < 2048 THEN <<192 + (c \div 64), 128 + (c % 64)>>
  ELSE IF c < 65536
    THEN <<224 + (c \div 4096), 128 + ((c \div 64) % 64), 128 + (c % 64)>>
    ELSE <<240 + (c \div 262144), 128 + ((c \div 4096) % 64),
           128 + ((c \div 64) % 64), 128 + (c % 64)>>

(* The bytes of a string given as its scalar values. *)
RECURSIVE Utf8Str(_)
Utf8Str(s) == IF s = <<>> THEN <<>> ELSE Utf8(Head(s)) \o Utf8Str(Tail(s))

(* The table as stored: the UTF-8 bytes of every entry's source sequence. *)
KnownBytes == [i \in 1..Len(KNOWN_SEQUENCES) |-> Utf8Str(KNOWN_SEQUENCES[i][1])]

(* Width in bytes of the scalar value whose leading byte is b. *)
CharWidth(b) == IF b < 128 THEN 1 ELSE IF b < 224 THEN 2 ELSE IF b < 240 THEN 3 ELSE 4

(* rem.chars().next().unwrap(): decode the first scalar value of rem. *)
FirstChar(rem) ==
  LET b == rem[1] IN
  CASE CharWidth(b) = 1 -> b
    [] CharWidth(b) = 2 -> (b - 192) * 64 + (rem[2] - 128)
    [] CharWidth(b) = 3 -> (b - 224) * 4096 + (rem[2] - 128) * 64 + (rem[3] - 128)
    [] OTHER -> (b - 240) * 262144 + (rem[2] - 128) * 4096
                + (rem[3] - 128) * 64 + (rem[4] - 128)

(* The index of the first scalar value instead of the second: nth(0). *)
SecondCharIndex_Nth0(rem) == 0

(* One byte per scalar value, as if the text were ASCII. *)
SecondCharIndex_OneByte(rem) == 1

(* rem.char_indices().nth(1).map(|(i, _)| i).unwrap_or(rem.len()): the byte *)
(* index of the second scalar value, or the whole length if there is none. *)
SecondCharIndex(rem) ==
  IF Len(rem) > CharWidth(rem[1]) THEN CharWidth(rem[1]) ELSE Len(rem)

(* str::cmp: lexicographic order of the bytes, from index i on. *)
RECURSIVE CmpFrom(_, _, _)
CmpFrom(a, b, i) ==
  IF i > Len(a) THEN (IF i > Len(b) THEN "Equal" ELSE "Less")
  ELSE IF i > Len(b) THEN "Greater"
  ELSE IF a[i] < b[i] THEN "Less"
  ELSE IF a[i] > b[i] THEN "Greater"
  ELSE CmpFrom(a, b, i + 1)

cmp(a, b) == CmpFrom(a, b, 1)

(* rem.strip_prefix(sequence) is Some: sequence is a literal prefix of rem. *)
IsPrefix(sequence, rem) ==
  /\ Len(sequence) <= Len(rem)
  /\ \A i \in 1..Len(sequence) : sequence[i] = rem[i]

(* The rest of rem after its first n bytes: &rem[n..]. *)
Rest(rem, n) == SubSeq(rem, n + 1, Len(rem))

(* ---------------------------------------------------------------------- *)
(* The search of MacRomanEncoder::next                                     *)
(* ---------------------------------------------------------------------- *)

(* The loop of slice::binary_search_by over KNOWN_SEQUENCES with the       *)
(* comparator |(prefix, _)| prefix.cmp(&rem); indices are 0-based.        *)
RECURSIVE BinarySearchLoop(_, _, _)
BinarySearchLoop(rem, base, size) ==
  IF size > 1
    THEN LET half == size \div 2
             mid == base + half
         IN BinarySearchLoop(rem,
                             IF cmp(KnownBytes[mid + 1], rem) = "Greater"
                               THEN base ELSE mid,
                             size - half)
    ELSE base

(* Ok(x): found |-> TRUE; Err(x): found |-> FALSE, x the insertion point. *)
binary_search_by(rem) ==
  LET base == BinarySearchLoop(rem, 0, Len(KNOWN_SEQUENCES))
      c == cmp(KnownBytes[base + 1], rem)
  IN IF c = "Equal" THEN [found |-> TRUE, x |-> base]
     ELSE [found |-> FALSE, x |-> IF c = "Less" THEN base + 1 ELSE base]

saturating_sub(x, y) == IF x < y THEN 0 ELSE x - y

(* Err(x) => x: the insertion point itself, not the row below it. *)
best_ErrNoSub(rem) ==
  LET r == binary_search_by(rem)
  IN r.x

(* Ok(x) handled like Err(x): the row below an exact hit. *)
best_OkAsErr(rem) ==
  LET r == binary_search_by(rem)
  IN saturating_sub(r.x, 1)

(* let best = match ... { Ok(x) => x, Err(x) => x.saturating_sub(1) } *)
best(rem) ==
  LET r == binary_search_by(rem)
  IN IF r.found THEN r.x ELSE saturating_sub(r.x, 1)

(* The step returned for a non-empty rem at offset pos, with the new rem   *)
(* and pos: item is (pos, len, Ok(code)) or (pos, len, Err(codepoint)).    *)
Step(rem, pos) ==
  LET b == best(rem) IN
  IF b < Len(KNOWN_SEQUENCES) /\ IsPrefix(KnownBytes[b + 1], rem)
    THEN LET n == Len(KnownBytes[b + 1])
         IN [rem |-> Rest(rem, n), pos |-> pos + n,
             item |-> [pos |-> pos, len |-> n, ok |-> TRUE,
                       val |-> KNOWN_SEQUENCES[b + 1][2]]]
    ELSE LET n == SecondCharIndex(rem)
         IN [rem |-> Rest(rem, n), pos |-> pos + n,
             item |-> [pos |-> pos, len |-> n, ok |-> FALSE,
                       val |-> FirstChar(rem)]]

(* The whole scan of a string as a function: the items next yields from   *)
(* rem at offset pos until it returns None.                                *)
RECURSIVE Collect(_, _)
Collect(rem, pos) ==
  IF rem = <<>> THEN <<>>
  ELSE LET s == Step(rem, pos) IN <<s.item>> \o Collect(s.rem, s.pos)

(* ---------------------------------------------------------------------- *)
(* State                                                                   *)
(* ---------------------------------------------------------------------- *)

VARIABLES
  input,  \* the scalar values of the text given to encode()
  rem,    \* MacRomanEncoder.rem, as UTF-8 bytes
  pos,    \* MacRomanEncoder.pos
  steps,  \* the items the iterator has yielded so far, in order
  ret     \* what the last call of next returned

vars == <<input, rem, pos, steps, ret>>

(* encode(input): MacRomanEncoder { pos: 0, rem: input } *)
encode(text) ==
  /\ input = text
  /\ rem = Utf8Str(text)
  /\ pos = 0
  /\ steps = <<>>
  /\ ret = <<"new">>

(* MacRomanEncoder::next *)
next ==
  IF rem = <<>>
    THEN /\ ret' = <<"None">>
         /\ UNCHANGED <<input, rem, pos, steps>>
    ELSE LET s == Step(rem, pos)
         IN /\ rem' = s.rem
            /\ pos' = s.pos
            /\ steps' = Append(steps, s.item)
            /\ ret' = <<"Some", s.item>>
            /\ UNCHANGED input

Next == next

(* ---------------------------------------------------------------------- *)
(* Inputs                                                                  *)
(* ---------------------------------------------------------------------- *)

SeqsUpTo(S, n) == UNION {[1..k -> S] : k \in 0..n}

(* Longest input, in scalar values, of the general specification. *)
MaxLen == 3

(* Scalar values of every kind the scan tells apart: table rows of 1, 2    *)
(* and 3 bytes, base letters with and without 2-codepoint rows, combining  *)
(* marks inside and outside the table, the first and last rows, and        *)
(* scalar values of 2, 3 and 4 bytes without a row.                        *)
Alphabet ==
  {0, 65, 66, 67, 101, 233, 240, 769, 772, 807, 8212, 9731, 64258, 128512}

Init == \E text \in SeqsUpTo(Alphabet, MaxLen) : encode(text)

Spec == Init /\ [][Next]_vars

(* Inputs of scalar values U+0000..U+007F only: every single scalar value  *)
(* between short texts of sample letters, and every pair.                  *)
Ascii == 0..127

AsciiSample == {0, 65, 101, 110, 127}

MaxAsciiCtx == 1

AsciiInputs ==
  {<<>>}
  \cup {<<a, b>> : a \in Ascii, b \in Ascii}
  \cup {l \o <<c>> \o r : l \in SeqsUpTo(AsciiSample, MaxAsciiCtx), c \in Ascii,
                           r \in SeqsUpTo(AsciiSample, MaxAsciiCtx)}

InitAscii == \E text \in AsciiInputs : encode(text)

SpecAscii == InitAscii /\ [][Next]_vars

(* Unicode canonical decompositions <<precomposed, base, mark>> of the     *)
(* letters of Latin-1 Supplement and Latin Extended-A (UnicodeData.txt).   *)
CanonicalDecomposition ==
  {
    <<192, 65, 768>>, <<193, 65, 769>>, <<194, 65, 770>>, <<195, 65, 771>>, <<196, 65, 776>>,
    <<197, 65, 778>>, <<199, 67, 807>>, <<200, 69, 768>>, <<201, 69, 769>>, <<202, 69, 770>>,
    <<203, 69, 776>>, <<204, 73, 768>>, <<205, 73, 769>>, <<206, 73, 770>>, <<207, 73, 776>>,
    <<209, 78, 771>>, <<210, 79, 768>>, <<211, 79, 769>>, <<212, 79, 770>>, <<213, 79, 771>>,
    <<214, 79, 776>>, <<217, 85, 768>>, <<218, 85, 769>>, <<219, 85, 770>>, <<220, 85, 776>>,
    <<221, 89, 769>>, <<224, 97, 768>>, <<225, 97, 769>>, <<226, 97, 770>>, <<227, 97, 771>>,
    <<228, 97, 776>>, <<229, 97, 778>>, <<231, 99, 807>>, <<232, 101, 768>>, <<233, 101, 769>>,
    <<234, 101, 770>>, <<235, 101, 776>>, <<236, 105, 768>>, <<237, 105, 769>>,
    <<238, 105, 770>>, <<239, 105, 776>>, <<241, 110, 771>>, <<242, 111, 768>>,
    <<243, 111, 769>>, <<244, 111, 770>>, <<245, 111, 771>>, <<246, 111, 776>>,
    <<249, 117, 768>>, <<250, 117, 769>>, <<251, 117, 770>>, <<252, 117, 776>>,
    <<253, 121, 769>>, <<255, 121, 776>>, <<256, 65, 772>>, <<257, 97, 772>>, <<258, 65, 774>>,
    <<259, 97, 774>>, <<260, 65, 808>>, <<261, 97, 808>>, <<262, 67, 769>>, <<263, 99, 769>>,
    <<264, 67, 770>>, <<265, 99, 770>>, <<266, 67, 775>>, <<267, 99, 775>>, <<268, 67, 780>>,
    <<269, 99, 780>>, <<270, 68, 780>>, <<271, 100, 780>>, <<274, 69, 772>>, <<275, 101, 772>>,
    <<276, 69, 774>>, <<277, 101, 774>>, <<278, 69, 775>>, <<279, 101, 775>>, <<280, 69, 808>>,
    <<281, 101, 808>>, <<282, 69, 780>>, <<283, 101, 780>>, <<284, 71, 770>>,
    <<285, 103, 770>>, <<286, 71, 774>>, <<287, 103, 774>>, <<288, 71, 775>>,
    <<289, 103, 775>>, <<290, 71, 807>>, <<291, 103, 807>>, <<292, 72, 770>>,
    <<293, 104, 770>>, <<296, 73, 771>>, <<297, 105, 771>>, <<298, 73, 772>>,
    <<299, 105, 772>>, <<300, 73, 774>>, <<301, 105, 774>>, <<302, 73, 808>>,
    <<303, 105, 808>>, <<304, 73, 775>>, <<308, 74, 770>>, <<309, 106, 770>>, <<310, 75, 807>>,
    <<311, 107, 807>>, <<313, 76, 769>>, <<314, 108, 769>>, <<315, 76, 807>>,
    <<316, 108, 807>>, <<317, 76, 780>>, <<318, 108, 780>>, <<323, 78, 769>>,
    <<324, 110, 769>>, <<325, 78, 807>>, <<326, 110, 807>>, <<327, 78, 780>>,
    <<328, 110, 780>>, <<332, 79, 772>>, <<333, 111, 772>>, <<334, 79, 774>>,
    <<335, 111, 774>>, <<336, 79, 779>>, <<337, 111, 779>>, <<340, 82, 769>>,
    <<341, 114, 769>>, <<342, 82, 807>>, <<343, 114, 807>>, <<344, 82, 780>>,
    <<345, 114, 780>>, <<346, 83, 769>>, <<347, 115, 769>>, <<348, 83, 770>>,
    <<349, 115, 770>>, <<350, 83, 807>>, <<351, 115, 807>>, <<352, 83, 780>>,
    <<353, 115, 780>>, <<354, 84, 807>>, <<355, 116, 807>>, <<356, 84, 780>>,
    <<357, 116, 780>>, <<360, 85, 771>>, <<361, 117, 771>>, <<362, 85, 772>>,
    <<363, 117, 772>>, <<364, 85, 774>>, <<365, 117, 774>>, <<366, 85, 778>>,
    <<367, 117, 778>>, <<368, 85, 779>>, <<369, 117, 779>>, <<370, 85, 808>>,
    <<371, 117, 808>>, <<372, 87, 770>>, <<373, 119, 770>>, <<374, 89, 770>>,
    <<375, 121, 770>>, <<376, 89, 776>>, <<377, 90, 769>>, <<378, 122, 769>>, <<379, 90, 775>>,
    <<380, 122, 775>>, <<381, 90, 780>>, <<382, 122, 780>>
  }

(* Inputs around an accented letter: every 2-codepoint row of the table    *)
(* and every precomposed letter of the table, between short texts.         *)
TwoCodepointRows == {i \in 1..Len(KNOWN_SEQUENCES) : Len(KNOWN_SEQUENCES[i][1]) = 2}

HasRow(s) == \E i \in 1..Len(KNOWN_SEQUENCES) : KNOWN_SEQUENCES[i][1] = s

PrecomposedInTable == {d \in CanonicalDecomposition : HasRow(<<d[1]>>)}

Context == {65, 769, 8212, 128512}

MaxCtx == 1

PairInputs ==
  {l \o m \o r : l \in SeqsUpTo(Context, MaxCtx),
                 m \in {KNOWN_SEQUENCES[i][1] : i \in TwoCodepointRows}
                       \cup {<<d[1]>> : d \in PrecomposedInTable},
                 r \in SeqsUpTo(Context, MaxCtx)}

InitPairs == \E text \in PairInputs : encode(text)

SpecPairs == InitPairs /\ [][Next]_vars

(* Inputs that start with the source sequence of a table row. *)
MaxSuffix == 1

Suffixes == {0, 65, 769, 772, 8212, 128512}

InitTable ==
  \E i \in 1..Len(KNOWN_SEQUENCES), t \in SeqsUpTo(Suffixes, MaxSuffix) :
    encode(KNOWN_SEQUENCES[i][1] \o t)

SpecTable == InitTable /\ [][Next]_vars

(* The texts of the tests and of the documentation. *)
QuebecoisSrc ==
    <<74, 39, 112, 101, 117, 120, 32, 109, 97, 110, 103, 101, 114, 32, 100, 39, 108, 97, 32, 118,
    105, 116, 114, 101, 44, 32, 231, 97, 32, 109, 39, 102, 97, 32, 112, 97, 115, 32, 109, 97, 108,
    46>>

QuebecoisDst ==
    <<74, 39, 112, 101, 117, 120, 32, 109, 97, 110, 103, 101, 114, 32, 100, 39, 108, 97, 32, 118,
    105, 116, 114, 101, 44, 32, 141, 97, 32, 109, 39, 102, 97, 32, 112, 97, 115, 32, 109, 97, 108,
    46>>

NorseSrc ==
    <<69, 107, 32, 103, 101, 116, 32, 101, 116, 105, 240, 32, 103, 108, 101, 114, 32, 225, 110,
    32, 254, 101, 115, 115, 32, 97, 240, 32, 118, 101, 114, 240, 97, 32, 115, 225, 114, 46>>

NorseDst ==
    <<69, 107, 32, 103, 101, 116, 32, 101, 116, 105, 64, 32, 103, 108, 101, 114, 32, 135, 110, 32,
    64, 101, 115, 115, 32, 97, 64, 32, 118, 101, 114, 64, 97, 32, 115, 135, 114, 46>>

CafeComposed == <<99, 97, 102, 233>>

CafeDecomposed == <<99, 97, 102, 101, 769>>

(* The characters the crate documentation discusses: U+00A4, U+20AC,      *)
(* U+03A9, U+2126, U+F8FF.                                                 *)
DocSymbols == <<164, 8364, 937, 8486, 63743>>

KnownInputs == {QuebecoisSrc, NorseSrc, CafeComposed, CafeDecomposed, DocSymbols}

InitKnown == \E text \in KnownInputs : encode(text)

SpecKnown == InitKnown /\ [][Next]_vars

(* The Ok codes of a sequence of items, in order. *)
RECURSIVE Codes(_)
Codes(items) ==
  IF items = <<>> THEN <<>>
  ELSE (IF Head(items).ok THEN <<Head(items).val>> ELSE <<>>) \o Codes(Tail(items))

(* test::quebecois_glass: collecting the results gives Ok(DST). *)
quebecois_glass ==
  (input = QuebecoisSrc /\ rem = <<>>) =>
    /\ \A i \in 1..Len(steps) : steps[i].ok
    /\ Codes(steps) = QuebecoisDst

(* test::norse_glass: with every Err replaced by b'@' the bytes are DST. *)
norse_glass ==
  (input = NorseSrc /\ rem = <<>>) =>
    [i \in 1..Len(steps) |-> IF steps[i].ok THEN steps[i].val ELSE 64] = NorseDst

(* ---------------------------------------------------------------------- *)
(* Properties                                                              *)
(* ---------------------------------------------------------------------- *)

InputBytes == Utf8Str(input)

(* The byte offsets of input at which a scalar value starts or the text ends. *)
Boundaries == {Len(Utf8Str(SubSeq(input, 1, k))) : k \in 0..Len(input)}

(* The text remaining at byte offset p of input. *)
RemainingAt(p) == Rest(InputBytes, p)

(* Number of scalar values in the first n bytes of the text at offset p. *)
ScalarsIn(p, n) == Cardinality({b \in Boundaries : p <= b /\ b < p + n})

RECURSIVE SumLen(_)
SumLen(items) == IF items = <<>> THEN 0 ELSE Head(items).len + SumLen(Tail(items))

(* Some table row is a literal prefix of the byte string r. *)
SomeRowIsPrefix(r) == \E e \in 1..Len(KNOWN_SEQUENCES) : IsPrefix(KnownBytes[e], r)

(* The scalar value c has a 1-codepoint row. *)
HasOwnRow(c) == HasRow(<<c>>)

(* The scan has returned everything: no text remains. *)
Exhausted == rem = <<>>

(* C1: the steps partition the UTF-8 bytes of the input: the first starts  *)
(* at 0, each later one where the previous ended, every length is at least *)
(* 1, every boundary is a scalar-value boundary, the unconsumed text is    *)
(* the input from the cursor on, and at the end the lengths sum to the     *)
(* byte length of the input.                                               *)
C1_Partition ==
  /\ \A i \in 1..Len(steps) :
       /\ steps[i].pos = (IF i = 1 THEN 0 ELSE steps[i - 1].pos + steps[i - 1].len)
       /\ steps[i].len >= 1
       /\ steps[i].pos \in Boundaries
       /\ steps[i].pos + steps[i].len \in Boundaries
  /\ pos = SumLen(steps)
  /\ rem = RemainingAt(pos)
  /\ Exhausted => SumLen(steps) = Len(InputBytes)

(* A finished scan of three steps, one of them of 1 byte and one longer, one Err. *)
C1_Witness ==
  /\ Exhausted /\ Len(steps) = 3
  /\ \E i, j, k \in 1..3 : steps[i].len = 1 /\ steps[j].len > 2 /\ ~steps[k].ok

(* C2: a step is Err(c) only when no table row is a literal prefix of the  *)
(* text remaining at the step's offset.                                    *)
C2_ErrOnlyWithoutPrefix ==
  \A i \in 1..Len(steps) :
    ~steps[i].ok => ~SomeRowIsPrefix(RemainingAt(steps[i].pos))

(* C2, its last sentence: an input whose scalar values all have their own  *)
(* 1-codepoint row yields no Err step.                                     *)
C2_AllOwnRowsNoErr ==
  (\A k \in 1..Len(input) : HasOwnRow(input[k])) =>
    \A i \in 1..Len(steps) : steps[i].ok

(* C3: a step that starts at X immediately followed by M, for a            *)
(* 2-codepoint row (X, M) with code k, is Ok(k) and as long as X and M     *)
(* together.                                                               *)
C3_LongestMatch ==
  \A i \in 1..Len(steps) :
    LET r == RemainingAt(steps[i].pos) IN
    \A e \in TwoCodepointRows :
      IsPrefix(KnownBytes[e], r) =>
        /\ steps[i].ok
        /\ steps[i].val = KNOWN_SEQUENCES[e][2]
        /\ steps[i].len = Len(Utf8(KNOWN_SEQUENCES[e][1][1]))
                          + Len(Utf8(KNOWN_SEQUENCES[e][1][2]))

(* A finished scan in which a 2-codepoint row was matched between two other steps. *)
C3_Witness ==
  /\ Exhausted /\ Len(steps) = 3
  /\ \E e \in TwoCodepointRows :
       /\ IsPrefix(KnownBytes[e], RemainingAt(steps[2].pos))
       /\ steps[2].len = 3

(* C4: for an input of scalar values U+0000..U+007F only, the i-th step is *)
(* (i - 1, 1, Ok(b)) with b the i-th scalar value, and a finished scan has *)
(* one step per scalar value.                                              *)
C4_AsciiFidelity ==
  (\A k \in 1..Len(input) : input[k] \in Ascii) =>
    /\ \A i \in 1..Len(steps) :
         steps[i] = [pos |-> i - 1, len |-> 1, ok |-> TRUE, val |-> input[i]]
    /\ Exhausted => Len(steps) = Len(input)

(* A finished scan of an ASCII text of a letter with 2-codepoint rows and another letter. *)
C4_Witness ==
  /\ Exhausted /\ Len(input) >= 2 /\ Len(steps) = Len(input)
  /\ \A k \in 1..Len(input) : input[k] \in Ascii
  /\ input[1] = 101 /\ input[2] = 122

(* The input with every precomposed letter replaced by its base and mark. *)
RECURSIVE Decompose(_)
Decompose(s) ==
  IF s = <<>> THEN <<>>
  ELSE (IF \E d \in CanonicalDecomposition : d[1] = Head(s)
          THEN LET d == CHOOSE d \in CanonicalDecomposition : d[1] = Head(s)
               IN <<d[2], d[3]>>
          ELSE <<Head(s)>>) \o Decompose(Tail(s))

(* The code of the row whose source sequence is s. *)
CodeOf(s) ==
  KNOWN_SEQUENCES[CHOOSE i \in 1..Len(KNOWN_SEQUENCES) : KNOWN_SEQUENCES[i][1] = s][2]

(* Every 2-codepoint row is the canonical decomposition of a precomposed  *)
(* letter that has a row with the same code, and every precomposed letter *)
(* with a row has a row for its decomposition with the same code.         *)
BothSpellingsInTable ==
  /\ \A e \in TwoCodepointRows :
       \E d \in CanonicalDecomposition :
         /\ <<d[2], d[3]>> = KNOWN_SEQUENCES[e][1]
         /\ HasRow(<<d[1]>>)
         /\ CodeOf(<<d[1]>>) = KNOWN_SEQUENCES[e][2]
  /\ \A d \in PrecomposedInTable :
       /\ HasRow(<<d[2], d[3]>>)
       /\ CodeOf(<<d[2], d[3]>>) = CodeOf(<<d[1]>>)

C6_Fallback ==
  \A i \in 1..Len(steps) :
    LET c == FirstChar(RemainingAt(steps[i].pos)) IN
    ~HasOwnRow(c) =>
      /\ steps[i] = [pos |-> steps[i].pos, len |-> Len(Utf8(c)), ok |-> FALSE, val |-> c]
      /\ i < Len(steps) => steps[i + 1].pos = steps[i].pos + Len(Utf8(c))
      /\ \A j \in (i + 1)..Len(steps) :
           HasOwnRow(FirstChar(RemainingAt(steps[j].pos))) => steps[j].ok

(* C6 without its last part: the fallback step itself and where the scan   *)
(* goes on.                                                                *)
C6_FallbackStep ==
  \A i \in 1..Len(steps) :
    LET c == FirstChar(RemainingAt(steps[i].pos)) IN
    ~HasOwnRow(c) =>
      /\ steps[i] = [pos |-> steps[i].pos, len |-> Len(Utf8(c)), ok |-> FALSE, val |-> c]
      /\ i < Len(steps) => steps[i + 1].pos = steps[i].pos + Len(Utf8(c))
      /\ rem = RemainingAt(pos)

(* C7: every step consumes at least one whole scalar value, so there are   *)
(* never more steps than scalar values; the empty input yields no step;    *)
(* None is returned only when no text remains; and a call of next when no  *)
(* text remains returns None and leaves rem, pos and the steps as they are. *)
C7_ProgressState ==
  /\ \A i \in 1..Len(steps) : ScalarsIn(steps[i].pos, steps[i].len) >= 1
  /\ Len(steps) <= Len(input)
  /\ input = <<>> => steps = <<>>
  /\ ret = <<"None">> => Exhausted

C7_ExhaustedStays ==
  Exhausted => (rem' = rem /\ pos' = pos /\ steps' = steps /\ ret' = <<"None">>)

C7_Progress == [](C7_ProgressState) /\ [][C7_ExhaustedStays]_vars

(* next has returned None after a scan of three steps. *)
C7_Witness == ret = <<"None">> /\ Len(steps) = 3 /\ Len(input) = 3

(* C8 as stated: composed "café" yields the codes 99, 97, 102, 233.        *)
C8_CafeAsStated ==
  (input = CafeComposed /\ Exhausted) => Codes(steps) = <<99, 97, 102, 233>>

(* C8, amended: composed "café" yields four Ok steps with the codes 99,    *)
(* 97, 102, 142; decomposed "café" yields the same codes in four steps,    *)
(* the last of which is Ok(142) and consumes two scalar values.            *)
C8_Cafe ==
  /\ (input = CafeComposed /\ Exhausted) =>
       /\ Len(steps) = 4
       /\ Codes(steps) = <<99, 97, 102, 142>>
  /\ (input = CafeDecomposed /\ Exhausted) =>
       /\ Len(steps) = 4
       /\ Codes(steps) = <<99, 97, 102, 142>>
       /\ ScalarsIn(steps[4].pos, steps[4].len) = 2

(* The scan of decomposed "café" has finished. *)
C8_Witness == input = CafeDecomposed /\ Exhausted /\ Len(steps) = 4

(* Lexicographic order of two sequences of scalar values. *)
RECURSIVE LexLess(_, _)
LexLess(a, b) ==
  IF b = <<>> THEN FALSE
  ELSE IF a = <<>> THEN TRUE
  ELSE IF Head(a) # Head(b) THEN Head(a) < Head(b)
  ELSE LexLess(Tail(a), Tail(b))

(* Adjacent rows are strictly increasing, in the byte order the search    *)
(* compares with and in the lexicographic order of their scalar values.   *)
StrictlyIncreasing ==
  \A i \in 1..(Len(KNOWN_SEQUENCES) - 1) :
    /\ cmp(KnownBytes[i], KnownBytes[i + 1]) = "Less"
    /\ LexLess(KNOWN_SEQUENCES[i][1], KNOWN_SEQUENCES[i + 1][1])

(* No two rows have the same source sequence. *)
SourcesDistinct ==
  \A i, j \in 1..Len(KNOWN_SEQUENCES) :
    KNOWN_SEQUENCES[i][1] = KNOWN_SEQUENCES[j][1] => i = j

(* The codes of the rows with source sequence s: one code if the mapping  *)
(* from source to code is a function.                                     *)
CodesOf(s) ==
  {KNOWN_SEQUENCES[i][2] : i \in {j \in 1..Len(KNOWN_SEQUENCES) : KNOWN_SEQUENCES[j][1] = s}}

SharedCodes ==
  /\ CodesOf(<<164>>) = {219} /\ CodesOf(<<8364>>) = {219}
  /\ CodesOf(<<937>>) = {189} /\ CodesOf(<<8486>>) = {189}

(* C9: adjacent rows are strictly increasing in the order the search       *)
(* compares with, so no two rows have the same source sequence; U+00A4 and *)
(* U+20AC share the code 0xDB, U+03A9 and U+2126 the code 0xBD; and every  *)
(* Ok step carries the one code of the row that is a prefix there.         *)
C9_StrictlySorted ==
  /\ StrictlyIncreasing
  /\ SourcesDistinct
  /\ SharedCodes
  /\ \A i \in 1..Len(steps) :
       steps[i].ok =>
         LET r == RemainingAt(steps[i].pos) IN
         \E e \in 1..Len(KNOWN_SEQUENCES) :
           /\ Len(KnownBytes[e]) = steps[i].len
           /\ IsPrefix(KnownBytes[e], r)
           /\ CodesOf(KNOWN_SEQUENCES[e][1]) = {steps[i].val}

(* The search has found the row of U+20AC, one of two sources of the code 0xDB. *)
C9_Witness ==
  /\ input[1] = 8364 /\ Len(steps) >= 1
  /\ steps[1] = [pos |-> 0, len |-> 3, ok |-> TRUE, val |-> 219]

(* The combining marks U+0300, U+0301, U+0302, U+0303, U+0308, U+030A, U+0327. *)
CombiningMarks == {768, 769, 770, 771, 776, 778, 807}

(* The row of the base letter of the 2-codepoint row e. *)
BaseRow(e) ==
  CHOOSE b \in 1..Len(KNOWN_SEQUENCES) :
    KNOWN_SEQUENCES[b][1] = <<KNOWN_SEQUENCES[e][1][1]>>

(* Every row has 1 or 2 scalar values; the second of 2 is a combining mark *)
(* and the first has its own row, which comes earlier in the table.        *)
TableShape ==
  /\ \A i \in 1..Len(KNOWN_SEQUENCES) : Len(KNOWN_SEQUENCES[i][1]) \in {1, 2}
  /\ \A e \in TwoCodepointRows :
       /\ KNOWN_SEQUENCES[e][1][2] \in CombiningMarks
       /\ HasOwnRow(KNOWN_SEQUENCES[e][1][1])
       /\ BaseRow(e) < e

(* No other row lies between a 2-codepoint row and the row of its base. *)
NothingBetween ==
  \A e \in TwoCodepointRows : ~\E k \in 1..Len(KNOWN_SEQUENCES) : BaseRow(e) < k /\ k < e

(* Every row between a 2-codepoint row and the row of its base letter is a *)
(* 2-codepoint row of the same base letter.                               *)
OnlySameBaseBetween ==
  \A e \in TwoCodepointRows : \A k \in 1..Len(KNOWN_SEQUENCES) :
    (BaseRow(e) < k /\ k < e) =>
      /\ Len(KNOWN_SEQUENCES[k][1]) = 2
      /\ KNOWN_SEQUENCES[k][1][1] = KNOWN_SEQUENCES[e][1][1]

(* C10 as stated, for the rows the scan has matched: the table has that   *)
(* shape, and no other row lies between a matched 2-codepoint row and the  *)
(* row of its base letter.                                                 *)
C10_ShapeAsStated ==
  /\ TableShape
  /\ \A i \in 1..Len(steps) :
       LET r == RemainingAt(steps[i].pos) IN
       \A e \in TwoCodepointRows :
         IsPrefix(KnownBytes[e], r) =>
           ~\E k \in 1..Len(KNOWN_SEQUENCES) : BaseRow(e) < k /\ k < e

(* C10, amended: every row has 1 or 2 scalar values, the second of 2 is    *)
(* one of the seven combining marks, the first has its own row, which      *)
(* sorts before the 2-codepoint row, and every row between the two is a    *)
(* 2-codepoint row of the same base letter; so every Ok step consumes 1 or *)
(* 2 scalar values, and one of 2 consumes a letter with its own row and    *)
(* one of those marks.                                                     *)
C10_Shape ==
  /\ TableShape
  /\ OnlySameBaseBetween
  /\ \A i \in 1..Len(steps) :
       steps[i].ok =>
         LET x == FirstChar(RemainingAt(steps[i].pos))
             n == ScalarsIn(steps[i].pos, steps[i].len)
         IN /\ n \in {1, 2}
            /\ n = 2 =>
                 /\ HasOwnRow(x)
                 /\ FirstChar(RemainingAt(steps[i].pos + Len(Utf8(x)))) \in CombiningMarks

(* The search has matched U+0041 U+0301, the third row of its base letter. *)
C10_Witness ==
  /\ Len(input) >= 2 /\ input[1] = 65 /\ input[2] = 769 /\ Len(steps) >= 1
  /\ steps[1] = [pos |-> 0, len |-> 3, ok |-> TRUE, val |-> 231]

====
